---- MODULE Spec2Model ----
(***************************************************************************)
(* Model of weatherlink-python: the serial communicator of                 *)
(* weatherlink/serial.py (connection lifecycle, ACK handshake, CRC-checked *)
(* configuration reads) and the derived-metrics functions of               *)
(* weatherlink/utils.py.                                                   *)
(*                                                                         *)
(* Bytes are their integer values (a Python 2 str of length n is a         *)
(* sequence of n integers).  Socket objects are numbered 1, 2, ... in      *)
(* order of creation; the transport (the socket module) is the             *)
(* environment: each transport call either succeeds or raises              *)
(* socket.error, and a blocking read delivers the requested bytes.         *)
(***************************************************************************)
EXTENDS Integers, Sequences, FiniteSets, TLC

VARIABLES
    _socket,    \* SerialIPCommunicator._socket: NoSocket or a socket object
    sockets,    \* the socket objects created so far, each with its state
    calls,      \* the calls made by the last operation, in order
    raised,     \* the exception the last operation propagated
    returned,   \* the value the last operation returned
    op,         \* the last operation and its arguments
    pre,        \* _socket, sockets and scope as they were before the operation
    prior,      \* how the operation before the last one ended
    scope,      \* position of the client relative to a with-block
    pc,         \* weatherlink.utils: "call" before, "done" after the call
    inputs,     \* weatherlink.utils: the arguments of the call
    output,     \* weatherlink.utils: what the call returned
    failure,    \* weatherlink.utils: the exception the call raised
    unrounded   \* weatherlink.utils: the value the call rounded to its result

commVars == <<_socket, sockets, calls, raised, returned, op, pre, prior, scope>>

utilVars == <<pc, inputs, output, failure, unrounded>>

vars == <<commVars, utilVars>>

-----------------------------------------------------------------------------
(* Bounds of the model *)

\* Socket objects the environment lets the program create.
MaxSockets == 2

-----------------------------------------------------------------------------
(* Values *)

\* self._socket = None
NoSocket == 0

\* curses.ascii.ACK, the value of ACK_BYTE = chr(curses.ascii.ACK)
ACK_BYTE == 6

\* The byte values the station sends in the model: bytes from which buffers
\* with a zero CRC (0 0 0, 1 16 33) and with a nonzero CRC are built, and
\* what it answers to an instruction: ACK or NAK (0x21).
Bytes == {0, 1, 16, 33}

AckBytes == {ACK_BYTE, 33}

NoException == [type |-> "None", arg |-> <<>>, origin |-> "None"]

\* An exception of class type with argument arg, raised by origin.
Exception(type, arg, origin) == [type |-> type, arg |-> arg, origin |-> origin]

\* What a failing transport call raises.
SocketError(fn) == Exception("socket.error", <<>>, fn)

\* socket.error is a subclass of IOError: what `except IOError` catches.
IsIOError(e) == e.type \in {"IOError", "socket.error"}

ReturnNone == [isNone |-> TRUE, value |-> <<>>]

Return(v) == [isNone |-> FALSE, value |-> v]

\* One entry of the call log.
Ev(fn, size, data) == [fn |-> fn, size |-> size, data |-> data]

\* The communicator and its transport as one operation sees and leaves them:
\* rx holds the bytes the station delivers during the operation, in order.
Frame(sock, socks, rx) ==
    [_socket |-> sock, sockets |-> socks, rx |-> rx, calls |-> <<>>,
     raised |-> NoException, value |-> ReturnNone]

Call(self, fn, size, data) ==
    [self EXCEPT !.calls = Append(@, Ev(fn, size, data))]

Raise(self, e) == [self EXCEPT !.raised = e, !.value = ReturnNone]

-----------------------------------------------------------------------------
(* SerialIPCommunicator: connect and disconnect *)

\* Whether the transport call fn raises socket.error in this operation.
Fails(faults, fn) == fn \in faults

\* disconnect() without its finally clause: a failing close leaves _socket set.
disconnect_without_finally(self, faults) ==
    LET s0 == Call(self, "disconnect", 0, <<>>)
    IN  IF s0._socket = NoSocket
          THEN Raise(s0, Exception("ValueError", <<>>, "disconnect"))
          ELSE LET s1 == Call(s0, "socket.close", s0._socket, <<>>)
                   s2 == [s1 EXCEPT !.sockets[s0._socket] = "closed"]
               IN  IF Fails(faults, "socket.close")
                     THEN Raise(s2, SocketError("socket.close"))
                     ELSE [s2 EXCEPT !._socket = NoSocket]

disconnect(self, faults) ==
    LET s0 == Call(self, "disconnect", 0, <<>>)
    IN  IF s0._socket = NoSocket
          THEN Raise(s0, Exception("ValueError", <<>>, "disconnect"))
          ELSE LET s1 == Call(s0, "socket.close", s0._socket, <<>>)
                   s2 == [s1 EXCEPT !.sockets[s0._socket] = "closed"]
                   s3 == IF Fails(faults, "socket.close")
                           THEN Raise(s2, SocketError("socket.close"))
                           ELSE s2
               IN  \* finally: self._socket = None
                   [s3 EXCEPT !._socket = NoSocket]

\* The try statement of connect() without its except clause: no cleanup.
connect_try_without_cleanup(self, faults) ==
    LET s1 == Call(self, "socket.socket", 0, <<>>)
    IN  IF Fails(faults, "socket.socket")
          THEN Raise(s1, SocketError("socket.socket"))
          ELSE
            LET id == Len(s1.sockets) + 1
                s2 == [s1 EXCEPT !.sockets = Append(@, "open"), !._socket = id]
                s3 == Call(s2, "socket.connect", id, <<>>)
            IN  IF ~Fails(faults, "socket.connect")
                  THEN [s3 EXCEPT !.sockets[id] = "connected"]
                  ELSE Raise(s3, SocketError("socket.connect"))

\* The try statement of connect(): open the socket; on a failure clean up
\* (a cleanup IOError is passed over) and re-raise.
connect_try(self, faults) ==
    LET s1 == Call(self, "socket.socket", 0, <<>>)
    IN  IF Fails(faults, "socket.socket")
          THEN \* self._socket was not assigned: nothing to clean up
               Raise(s1, SocketError("socket.socket"))
          ELSE
            LET id == Len(s1.sockets) + 1
                s2 == [s1 EXCEPT !.sockets = Append(@, "open"), !._socket = id]
                s3 == Call(s2, "socket.connect", id, <<>>)
            IN  IF ~Fails(faults, "socket.connect")
                  THEN [s3 EXCEPT !.sockets[id] = "connected"]
                  ELSE
                    LET s4 == IF s3._socket # NoSocket
                                THEN disconnect(s3, faults)
                                ELSE s3
                    IN  IF s4.raised # NoException /\ ~IsIOError(s4.raised)
                          THEN s4
                          ELSE Raise(s4, SocketError("socket.connect"))

\* connect() without the guard on a socket already held.
connect_unchecked(self, faults) ==
    connect_try(Call(self, "connect", 0, <<>>), faults)

connect(self, faults) ==
    LET s0 == Call(self, "connect", 0, <<>>)
    IN  IF s0._socket # NoSocket
          THEN Raise(s0, Exception("ValueError", <<>>, "connect"))
          ELSE connect_try(s0, faults)

-----------------------------------------------------------------------------
(* SerialCommunicator: the scope, the ACK handshake *)

__enter__(self, faults) ==
    connect(Call(self, "__enter__", 0, <<>>), faults)

\* __exit__ that re-raises a failure of disconnect whatever ended the body.
__exit___reraising(self, exception_type, faults) ==
    disconnect(Call(self, "__exit__", 0, <<>>), faults)

\* __exit__ returns None: it never swallows the exception of the body.
__exit__(self, exception_type, faults) ==
    LET s0 == Call(self, "__exit__", 0, <<>>)
        s1 == disconnect(s0, faults)
    IN  IF s1.raised # NoException
          THEN IF exception_type = "None"
                 THEN s1
                 ELSE [s1 EXCEPT !.raised = NoException]
          ELSE s1

\* socket.recv(bufsize): at most bufsize of the bytes that have arrived.
recv(rx, bufsize) ==
    SubSeq(rx, 1, IF bufsize < Len(rx) THEN bufsize ELSE Len(rx))

_send_data(self, data, faults) ==
    LET s0 == Call(self, "_send_data", Len(data), data)
    IN  IF s0._socket = NoSocket
          THEN Raise(s0, Exception("AttributeError", <<>>, "_send_data"))
          ELSE LET s1 == Call(s0, "socket.sendall", Len(data), data)
               IN  IF Fails(faults, "socket.sendall")
                     THEN Raise(s1, SocketError("socket.sendall"))
                     ELSE s1

_read_data(self, length, faults) ==
    LET s0 == Call(self, "_read_data", length, <<>>)
    IN  IF s0._socket = NoSocket
          THEN Raise(s0, Exception("AttributeError", <<>>, "_read_data"))
          ELSE LET s1 == Call(s0, "socket.recv", 1, <<>>)
                   data == recv(s1.rx, 1)
               IN  IF Fails(faults, "socket.recv")
                     THEN Raise(s1, SocketError("socket.recv"))
                     ELSE [s1 EXCEPT !.rx = SubSeq(@, Len(data) + 1, Len(@)),
                                     !.value = Return(data)]

\* confirm_ack() that reads one more byte when the first is not an ACK.
confirm_ack_retrying(self, faults) ==
    LET s0 == Call(self, "confirm_ack", 0, <<>>)
        s1 == _read_data(s0, 1, faults)
        s2 == IF s1.raised = NoException /\ s1.value.value # <<ACK_BYTE>>
                THEN _read_data(s1, 1, faults)
                ELSE s1
    IN  IF s2.raised # NoException
          THEN s2
          ELSE IF s2.value.value # <<ACK_BYTE>>
                 THEN Raise(s2, Exception("IOError", s2.value.value, "confirm_ack"))
                 ELSE [s2 EXCEPT !.value = ReturnNone]

confirm_ack(self, faults) ==
    LET s0 == Call(self, "confirm_ack", 0, <<>>)
        s1 == _read_data(s0, 1, faults)
    IN  IF s1.raised # NoException
          THEN s1
          ELSE IF s1.value.value # <<ACK_BYTE>>
                 THEN Raise(s1, Exception("IOError", s1.value.value, "confirm_ack"))
                 ELSE [s1 EXCEPT !.value = ReturnNone]

_send_instruction(self, command, confirm, faults) ==
    LET s0 == Call(self, "_send_instruction", 0, <<>>)
        s1 == _send_data(s0, command, faults)
    IN  IF s1.raised # NoException
          THEN s1
          ELSE IF confirm THEN confirm_ack(s1, faults) ELSE s1

\* with self._get_file_handle() as handle: handle.read(size)
_get_file_handle(self, size, faults) ==
    LET s0 == Call(self, "_get_file_handle", 0, <<>>)
    IN  IF s0._socket = NoSocket
          THEN Raise(s0, Exception("AttributeError", <<>>, "_get_file_handle"))
          ELSE
            LET s1 == Call(s0, "socket.makefile", 0, <<>>)
            IN  IF Fails(faults, "socket.makefile")
                  THEN \* handle is None: nothing to close
                       Raise(s1, SocketError("socket.makefile"))
                  ELSE
                    LET s2 == Call(s1, "handle.read", size, <<>>)
                        data == recv(s2.rx, size)
                        s3 == IF Fails(faults, "handle.read")
                                THEN Raise(s2, SocketError("handle.read"))
                                ELSE [s2 EXCEPT
                                        !.rx = SubSeq(@, Len(data) + 1, Len(@)),
                                        !.value = Return(data)]
                        s4 == Call(s3, "handle.close", 0, <<>>)
                    IN  IF Fails(faults, "handle.close") /\ s3.raised = NoException
                          THEN Raise(s4, SocketError("handle.close"))
                          ELSE s4

-----------------------------------------------------------------------------
(* weatherlink.models.calculate_weatherlink_crc: CRC-CCITT, seed 0 *)

RECURSIVE Xor(_, _)
Xor(a, b) ==
    IF a = 0 THEN b
    ELSE IF b = 0 THEN a
    ELSE (((a % 2) + (b % 2)) % 2) + 2 * Xor(a \div 2, b \div 2)

CrcShift(crc) ==
    IF crc >= 32768
      THEN Xor((crc * 2) % 65536, 4129)
      ELSE (crc * 2) % 65536

RECURSIVE CrcBits(_, _)
CrcBits(crc, n) == IF n = 0 THEN crc ELSE CrcBits(CrcShift(crc), n - 1)

RECURSIVE CrcFrom(_, _)
CrcFrom(crc, data) ==
    IF data = <<>>
      THEN crc
      ELSE CrcFrom(CrcBits(Xor(crc, Head(data) * 256), 8), Tail(data))

calculate_weatherlink_crc(data) == CrcFrom(0, data)

-----------------------------------------------------------------------------
(* ConfigurationSettingMixin *)

\* The value of one hexadecimal digit character.
HexDigit(c) ==
    IF c >= 48 /\ c <= 57 THEN c - 48
    ELSE IF c >= 65 /\ c <= 70 THEN c - 55
    ELSE c - 87

\* int('0x%s' % s, 16)
RECURSIVE HexInt(_)
HexInt(s) ==
    IF s = <<>>
      THEN 0
      ELSE 16 * HexInt(SubSeq(s, 1, Len(s) - 1)) + HexDigit(s[Len(s)])

\* 'EEBRD %s %s\n' % (setting_address, setting_length)
CONFIG_READ_INSTRUCTION(setting_address, setting_length) ==
    <<69, 69, 66, 82, 68, 32>> \o setting_address \o <<32>> \o setting_length
        \o <<10>>

\* read_config_setting() that does not look at the CRC.
read_config_setting_unverified(self, setting_address, setting_length, confirm_crc, return_crc, faults) ==
    LET s0 == Call(self, "read_config_setting", 0, <<>>)
        s1 == _send_instruction(
                  s0, CONFIG_READ_INSTRUCTION(setting_address, setting_length),
                  TRUE, faults)
    IN  IF s1.raised # NoException
          THEN s1
          ELSE
            LET s2 == _get_file_handle(s1, HexInt(setting_length) + 2, faults)
                setting == s2.value.value
            IN  IF s2.raised # NoException
                  THEN s2
                  ELSE [s2 EXCEPT !.value =
                          Return(IF return_crc
                                   THEN setting
                                   ELSE SubSeq(setting, 1, Len(setting) - 2))]

read_config_setting(self, setting_address, setting_length, confirm_crc, return_crc, faults) ==
    LET s0 == Call(self, "read_config_setting", 0, <<>>)
        s1 == _send_instruction(
                  s0, CONFIG_READ_INSTRUCTION(setting_address, setting_length),
                  TRUE, faults)
    IN  IF s1.raised # NoException
          THEN s1
          ELSE
            LET s2 == _get_file_handle(s1, HexInt(setting_length) + 2, faults)
                setting == s2.value.value
            IN  IF s2.raised # NoException
                  THEN s2
                  ELSE IF confirm_crc /\ calculate_weatherlink_crc(setting) # 0
                    THEN Raise(s2, Exception("ValueError", setting, "read_config_setting"))
                    ELSE [s2 EXCEPT !.value =
                            Return(IF return_crc
                                     THEN setting
                                     ELSE SubSeq(setting, 1, Len(setting) - 2))]

-----------------------------------------------------------------------------
(* The client: one operation at a time on one communicator *)

\* The arguments of an operation, and what the transport does during it.
NoArgs ==
    [command |-> <<>>, confirm_ack |-> FALSE, setting_address |-> <<>>,
     setting_length |-> <<>>, confirm_crc |-> FALSE, return_crc |-> FALSE,
     length |-> 0, exception_type |-> "None", rx |-> <<>>, faults |-> {}]

Operation(name, args) == [name |-> name, args |-> args]

Idle == op.name = "idle"

\* The environment creates at most MaxSockets socket objects.
MayCreate == _socket # NoSocket \/ Len(sockets) < MaxSockets

\* The state after an operation: what it left, and what it was called on.
Finish(name, args, result, propagated, scope_after) ==
    /\ _socket' = result._socket
    /\ sockets' = result.sockets
    /\ calls' = result.calls
    /\ raised' = propagated
    /\ returned' = result.value
    /\ op' = Operation(name, args)
    /\ pre' = [_socket |-> _socket, sockets |-> sockets, scope |-> scope]
    /\ scope' = scope_after
    /\ UNCHANGED <<prior, utilVars>>

\* What the transport does to an operation on a communicator that holds no
\* socket: nothing (no transport call is made, no byte arrives).
OnConnection(choices, nothing) ==
    IF _socket = NoSocket THEN {nothing} ELSE choices

\* connect() makes transport calls only when no socket is held.
WhenOpening(choices) ==
    IF _socket = NoSocket THEN choices ELSE {{}}

\* The transport calls that may fail together in one operation.
ConnectFaults == SUBSET {"socket.socket", "socket.connect", "socket.close"}

CloseFaults == SUBSET {"socket.close"}

SendFaults == SUBSET {"socket.sendall", "socket.recv"}

ReadFaults ==
    {{}, {"socket.sendall"}, {"socket.recv"}, {"socket.makefile"},
     {"handle.read"}, {"handle.close"}, {"handle.read", "handle.close"}}

\* The byte strings of length n the station may deliver.
RECURSIVE Strings(_)
Strings(n) ==
    IF n = 0
      THEN {<<>>}
      ELSE {<<b>> \o s : b \in Bytes, s \in Strings(n - 1)}

\* The answer to an instruction, alone or followed by one more byte.
Answers == {<<a>> \o s : a \in AckBytes, s \in Strings(0) \cup Strings(1)}

\* "TEST\n" and the setup-bits read "EEBRD 2B 01\n"
Commands ==
    {<<84, 69, 83, 84, 10>>, CONFIG_READ_INSTRUCTION(<<50, 66>>, <<48, 49>>)}

\* CONFIG_SETTING_SETUP_BITS = ('2B', '01') and a two-byte setting at '2C'
Settings == {<<<<50, 66>>, <<48, 49>>>>, <<<<50, 67>>, <<48, 50>>>>}

\* The exceptions with which the body of a with-block ends ("None": normally).
BodyExceptions == {"None", "IOError", "KeyboardInterrupt"}

Connect ==
    /\ Idle
    /\ MayCreate
    /\ \E faults \in WhenOpening(ConnectFaults) :
         LET result == connect(Frame(_socket, sockets, <<>>), faults)
         IN  Finish("connect", [NoArgs EXCEPT !.faults = faults], result,
                    result.raised, scope)

Disconnect ==
    /\ Idle
    /\ \E faults \in OnConnection(CloseFaults, {}) :
         LET result == disconnect(Frame(_socket, sockets, <<>>), faults)
         IN  Finish("disconnect", [NoArgs EXCEPT !.faults = faults], result,
                    result.raised, scope)

\* with communicator: entering; the body runs only if connect did not raise.
WithEnter ==
    /\ Idle
    /\ scope = "outside"
    /\ MayCreate
    /\ \E faults \in WhenOpening(ConnectFaults) :
         LET result == __enter__(Frame(_socket, sockets, <<>>), faults)
         IN  Finish("__enter__", [NoArgs EXCEPT !.faults = faults], result,
                    result.raised,
                    IF result.raised = NoException THEN "body" ELSE "outside")

\* with communicator: the body ends, normally or with exception_type; the
\* with statement re-raises the body's exception unless __exit__ raises.
WithExit ==
    /\ Idle
    /\ scope = "body"
    /\ \E faults \in OnConnection(CloseFaults, {}),
          exception_type \in BodyExceptions :
         LET result == __exit__(Frame(_socket, sockets, <<>>), exception_type,
                                faults)
         IN  Finish("__exit__",
                    [NoArgs EXCEPT !.faults = faults,
                                   !.exception_type = exception_type],
                    result,
                    IF result.raised # NoException
                      THEN result.raised
                      ELSE IF exception_type # "None"
                             THEN Exception(exception_type, <<>>, "body")
                             ELSE NoException,
                    "outside")

SendInstruction ==
    /\ Idle
    /\ \E command \in Commands, confirm \in BOOLEAN,
          faults \in OnConnection(SendFaults, {}),
          rx \in OnConnection(Answers, <<>>) :
         LET result == _send_instruction(Frame(_socket, sockets, rx), command,
                                         confirm, faults)
         IN  Finish("_send_instruction",
                    [NoArgs EXCEPT !.command = command, !.confirm_ack = confirm,
                                   !.faults = faults, !.rx = rx],
                    result, result.raised, scope)

ReadData ==
    /\ Idle
    /\ \E length \in 1..2,
          faults \in OnConnection(SUBSET {"socket.recv"}, {}),
          rx \in OnConnection(Answers, <<>>) :
         LET result == _read_data(Frame(_socket, sockets, rx), length, faults)
         IN  Finish("_read_data",
                    [NoArgs EXCEPT !.length = length, !.faults = faults,
                                   !.rx = rx],
                    result, result.raised, scope)

ReadConfigSetting ==
    /\ Idle
    /\ \E setting \in Settings, confirm_crc, return_crc \in BOOLEAN,
          faults \in OnConnection(ReadFaults, {}) :
         \E rx \in OnConnection(
                   {<<ack>> \o payload : ack \in AckBytes,
                        payload \in Strings(HexInt(setting[2]) + 2)},
                   <<>>) :
           LET result == read_config_setting(
                             Frame(_socket, sockets, rx), setting[1],
                             setting[2], confirm_crc, return_crc, faults)
           IN  Finish("read_config_setting",
                      [NoArgs EXCEPT !.setting_address = setting[1],
                                     !.setting_length = setting[2],
                                     !.confirm_crc = confirm_crc,
                                     !.return_crc = return_crc,
                                     !.faults = faults, !.rx = rx],
                      result, result.raised, scope)

\* How the last operation ended, as far as the next one is concerned.
Ended ==
    IF op.name \in {"connect", "__enter__"} /\ pre._socket = NoSocket
         /\ raised # NoException
      THEN IF "socket.close" \in op.args.faults /\ Len(sockets) > Len(pre.sockets)
             THEN "connect and cleanup failed"
             ELSE "connect failed"
    ELSE IF op.name \in {"disconnect", "__exit__"} /\ pre._socket # NoSocket
              /\ "socket.close" \in op.args.faults
      THEN "close failed"
    ELSE "other"

\* The client takes the outcome and goes on to its next operation.
Proceed ==
    /\ ~Idle
    /\ op' = Operation("idle", NoArgs)
    /\ calls' = <<>>
    /\ raised' = NoException
    /\ returned' = ReturnNone
    /\ pre' = [_socket |-> _socket, sockets |-> sockets, scope |-> scope]
    /\ prior' = Ended
    /\ UNCHANGED <<_socket, sockets, scope, utilVars>>

\* No function of weatherlink.utils is called.
NoCall ==
    /\ pc = "none"
    /\ inputs = <<>>
    /\ output = <<>>
    /\ failure = "None"
    /\ unrounded = <<>>

\* A communicator as constructed.
Constructed ==
    /\ _socket = NoSocket
    /\ sockets = <<>>
    /\ calls = <<>>
    /\ raised = NoException
    /\ returned = ReturnNone
    /\ op = Operation("idle", NoArgs)
    /\ pre = [_socket |-> NoSocket, sockets |-> <<>>, scope |-> "outside"]
    /\ prior = "other"
    /\ scope = "outside"

Init == Constructed /\ NoCall

Next ==
    \/ Connect
    \/ Disconnect
    \/ WithEnter
    \/ WithExit
    \/ SendInstruction
    \/ ReadData
    \/ ReadConfigSetting
    \/ Proceed

Spec == Init /\ [][Next]_vars

-----------------------------------------------------------------------------
(* Properties of the communicator *)

TransportFns ==
    {"socket.socket", "socket.connect", "socket.close", "socket.sendall",
     "socket.recv", "socket.makefile", "handle.read", "handle.close"}

\* The transport calls of the last operation, in order.
TransportCalls == SelectSeq(calls, LAMBDA e : e.fn \in TransportFns)

CallsOf(fn) == SelectSeq(calls, LAMBDA e : e.fn = fn)

Connected == _socket # NoSocket

WasConnected == pre._socket # NoSocket

\* C1: connect() on a communicator that is already connected fails with
\* ValueError and leaves the connection as it was: the same socket object is
\* held, it is not closed, no socket is created and no transport call made.
C1_ConnectWhenConnected ==
    (op.name = "connect" /\ WasConnected) =>
        /\ raised = Exception("ValueError", <<>>, "connect")
        /\ _socket = pre._socket
        /\ sockets = pre.sockets
        /\ sockets[_socket] = "connected"
        /\ TransportCalls = <<>>

C1_Witness ==
    /\ op.name = "connect"
    /\ WasConnected
    /\ raised.type = "ValueError"
    /\ Len(sockets) = 1

\* C2: disconnect() on a connected communicator closes the held socket and
\* always leaves the communicator disconnected; a failure of close is
\* propagated, and the connect() that follows it is not rejected with the
\* state error.  disconnect() on a disconnected communicator fails with
\* ValueError and changes nothing.
C2_Disconnect ==
    /\ (op.name = "disconnect" /\ WasConnected) =>
          /\ _socket = NoSocket
          /\ TransportCalls = <<Ev("socket.close", pre._socket, <<>>)>>
          /\ raised = IF "socket.close" \in op.args.faults
                        THEN SocketError("socket.close")
                        ELSE NoException
    /\ (op.name = "disconnect" /\ ~WasConnected) =>
          /\ raised = Exception("ValueError", <<>>, "disconnect")
          /\ _socket = pre._socket
          /\ sockets = pre.sockets
          /\ TransportCalls = <<>>
    /\ (op.name = "connect" /\ prior = "close failed") =>
          raised.type # "ValueError"

C2_Witness ==
    /\ op.name = "connect"
    /\ prior = "close failed"
    /\ raised = NoException
    /\ Connected

\* What disconnect() raises when called in the state before the operation.
DisconnectFailure ==
    IF ~WasConnected
      THEN Exception("ValueError", <<>>, "disconnect")
    ELSE IF "socket.close" \in op.args.faults
      THEN SocketError("socket.close")
    ELSE NoException

\* C3: entering the scope calls connect, and the body runs only if it
\* succeeded; however the body ends, __exit__ invokes disconnect exactly
\* once; a failure of that disconnect is raised only when the body did not
\* fail, and when the body failed it is the body's exception that propagates.
C3_Scope ==
    /\ op.name = "__enter__" =>
          /\ Len(CallsOf("connect")) = 1
          /\ scope = (IF raised = NoException THEN "body" ELSE "outside")
          /\ scope = "body" => Connected
    /\ op.name = "__exit__" =>
          /\ Len(CallsOf("disconnect")) = 1
          /\ _socket = NoSocket
          /\ raised = IF op.args.exception_type # "None"
                        THEN Exception(op.args.exception_type, <<>>, "body")
                        ELSE DisconnectFailure

C3_Witness ==
    /\ op.name = "__exit__"
    /\ op.args.exception_type = "IOError"
    /\ "socket.close" \in op.args.faults
    /\ WasConnected
    /\ raised.origin = "body"

\* C4: when connect() fails while opening the connection, the socket it
\* created (if any) is closed, the failure propagated is the one of the
\* failing socket.socket() or socket.connect() call, also when the cleanup
\* fails, the communicator is left disconnected, and the connect() that
\* follows is not rejected with the state error.
C4_ConnectFailure ==
    /\ (op.name = "connect" /\ ~WasConnected /\ op.args.faults # {}) =>
          IF "socket.socket" \in op.args.faults
            THEN /\ raised = SocketError("socket.socket")
                 /\ _socket = NoSocket
                 /\ sockets = pre.sockets
          ELSE IF "socket.connect" \in op.args.faults
            THEN /\ raised = SocketError("socket.connect")
                 /\ _socket = NoSocket
                 /\ Len(sockets) = Len(pre.sockets) + 1
                 /\ sockets[Len(sockets)] = "closed"
                 /\ Len(CallsOf("socket.close")) = 1
          ELSE raised = NoException /\ Connected
    /\ (op.name = "connect"
          /\ prior \in {"connect failed", "connect and cleanup failed"}) =>
          raised.type # "ValueError"

C4_Witness ==
    /\ op.name = "connect"
    /\ prior = "connect and cleanup failed"
    /\ raised = NoException
    /\ Connected
    /\ sockets = <<"closed", "connected">>


\* C5: _send_instruction writes the whole command first; with confirm_ack it
\* then reads one byte, once: ACK (0x06) is success, any other byte fails at
\* once with an IOError carrying that byte, with no second write or read;
\* without confirm_ack nothing is read.
C5_SendInstruction ==
    (op.name = "_send_instruction" /\ WasConnected) =>
        LET command == op.args.command
            send == Ev("socket.sendall", Len(command), command)
            read == Ev("socket.recv", 1, <<>>)
            sent == "socket.sendall" \notin op.args.faults
            received == "socket.recv" \notin op.args.faults
            byte == op.args.rx[1]
        IN  /\ TransportCalls =
                 IF sent /\ op.args.confirm_ack THEN <<send, read>> ELSE <<send>>
            /\ raised =
                 IF ~sent THEN SocketError("socket.sendall")
                 ELSE IF ~op.args.confirm_ack THEN NoException
                 ELSE IF ~received THEN SocketError("socket.recv")
                 ELSE IF byte = 6 THEN NoException
                 ELSE Exception("IOError", <<byte>>, "confirm_ack")
            /\ returned = ReturnNone

C5_Witness ==
    /\ op.name = "_send_instruction"
    /\ WasConnected
    /\ op.args.confirm_ack
    /\ op.args.faults = {}
    /\ Len(op.args.rx) = 2
    /\ op.args.rx[1] = 33
    /\ raised.type = "IOError"
    /\ raised.arg = <<33>>

\* C6: read_config_setting sends EEBRD, confirms the ACK, and only after an
\* ACK reads length + 2 bytes, once, through the buffered handle.  With
\* confirm_crc it raises ValueError, and returns nothing, whenever the CRC of
\* those length + 2 bytes is not zero; otherwise it returns the first length
\* bytes, or all length + 2 of them with return_crc.
C6_ReadConfigSetting ==
    (op.name = "read_config_setting" /\ WasConnected) =>
        LET length == HexInt(op.args.setting_length)
            command == <<69, 69, 66, 82, 68, 32>> \o op.args.setting_address
                           \o <<32>> \o op.args.setting_length \o <<10>>
            send == Ev("socket.sendall", Len(command), command)
            ack == op.args.rx[1]
            buffer == SubSeq(op.args.rx, 2, length + 3)
            handshake == <<send, Ev("socket.recv", 1, <<>>)>>
            reading == <<Ev("socket.makefile", 0, <<>>),
                         Ev("handle.read", length + 2, <<>>),
                         Ev("handle.close", 0, <<>>)>>
        IN  /\ raised # NoException => returned = ReturnNone
            /\ Len(CallsOf("handle.read")) > 0 =>
                 /\ ack = 6
                 /\ SubSeq(TransportCalls, 1, 2) = handshake
                 /\ CallsOf("handle.read") = <<Ev("handle.read", length + 2, <<>>)>>
            /\ op.args.faults = {} =>
                 IF ack # 6
                   THEN /\ raised = Exception("IOError", <<ack>>, "confirm_ack")
                        /\ TransportCalls = handshake
                 ELSE IF op.args.confirm_crc
                           /\ calculate_weatherlink_crc(buffer) # 0
                   THEN /\ raised = Exception("ValueError", buffer,
                                              "read_config_setting")
                        /\ TransportCalls = handshake \o reading
                 ELSE /\ raised = NoException
                      /\ TransportCalls = handshake \o reading
                      /\ Len(buffer) = length + 2
                      /\ returned = Return(IF op.args.return_crc
                                             THEN buffer
                                             ELSE SubSeq(buffer, 1, length))

C6_Witness ==
    /\ op.name = "read_config_setting"
    /\ WasConnected
    /\ op.args.faults = {}
    /\ op.args.confirm_crc
    /\ ~op.args.return_crc
    /\ op.args.rx = <<6, 1, 16, 33>>
    /\ returned = Return(<<1>>)

(***************************************************************************)
(* weatherlink.utils: exact decimal arithmetic.                            *)
(*                                                                         *)
(* The module computes with decimal.Decimal under the default context      *)
(* (28 significant digits, ROUND_HALF_EVEN).  A Decimal is modelled by its *)
(* sign, its coefficient and its number of decimal places.  Sums, products *)
(* and the divisions by 2, 4, 5 and 10 of the functions modelled below     *)
(* stay far below 28 digits, so they are exact.                            *)
(***************************************************************************)

\* The coefficient of a decimal.Decimal is an unbounded natural number: limbs
\* in base 10^4, least significant first, no leading zero limb (zero is the
\* empty sequence).
Base == 10000

RECURSIVE NatOf(_)
NatOf(n) == IF n = 0 THEN <<>> ELSE <<n % Base>> \o NatOf(n \div Base)

RECURSIVE NTrim(_)
NTrim(a) ==
    IF a = <<>> THEN <<>>
    ELSE IF a[Len(a)] = 0 THEN NTrim(SubSeq(a, 1, Len(a) - 1))
    ELSE a

RECURSIVE NAddC(_, _, _)
NAddC(a, b, carry) ==
    IF a = <<>> /\ b = <<>>
      THEN NatOf(carry)
      ELSE LET x == IF a = <<>> THEN 0 ELSE Head(a)
               y == IF b = <<>> THEN 0 ELSE Head(b)
               t == x + y + carry
           IN  <<t % Base>> \o NAddC(IF a = <<>> THEN a ELSE Tail(a),
                                     IF b = <<>> THEN b ELSE Tail(b),
                                     t \div Base)

NAdd(a, b) == NAddC(a, b, 0)

\* a - b for a >= b
RECURSIVE NSubB(_, _, _)
NSubB(a, b, borrow) ==
    IF a = <<>>
      THEN <<>>
      ELSE LET y == IF b = <<>> THEN 0 ELSE Head(b)
               t == Head(a) - y - borrow
           IN  <<(t + Base) % Base>> \o NSubB(Tail(a),
                                              IF b = <<>> THEN b ELSE Tail(b),
                                              IF t < 0 THEN 1 ELSE 0)

NSub(a, b) == NTrim(NSubB(a, b, 0))

\* -1, 0, 1 as a < b, a = b, a > b
RECURSIVE NCmpFrom(_, _, _)
NCmpFrom(a, b, i) ==
    IF i = 0 THEN 0
    ELSE IF a[i] < b[i] THEN -1
    ELSE IF a[i] > b[i] THEN 1
    ELSE NCmpFrom(a, b, i - 1)

NCmp(a, b) ==
    IF Len(a) < Len(b) THEN -1
    ELSE IF Len(a) > Len(b) THEN 1
    ELSE NCmpFrom(a, b, Len(a))

\* a * k for 0 <= k < Base
RECURSIVE NMulC(_, _, _)
NMulC(a, k, carry) ==
    IF a = <<>>
      THEN NatOf(carry)
      ELSE LET t == Head(a) * k + carry
           IN  <<t % Base>> \o NMulC(Tail(a), k, t \div Base)

NMulLimb(a, k) == IF k = 0 THEN <<>> ELSE NMulC(a, k, 0)

RECURSIVE NMul(_, _)
NMul(a, b) ==
    IF a = <<>> \/ b = <<>>
      THEN <<>>
      ELSE LET rest == NMul(Tail(a), b)
           IN  NAdd(NMulLimb(b, Head(a)),
                    IF rest = <<>> THEN <<>> ELSE <<0>> \o rest)

\* floor(a / d) for 0 < d <= Base
RECURSIVE NDivR(_, _, _)
NDivR(a, d, i) ==
    \* <<quotient limbs i..1, remainder>> processing from the top limb down
    IF i > Len(a)
      THEN [q |-> <<>>, r |-> 0]
      ELSE LET up == NDivR(a, d, i + 1)
               t == up.r * Base + a[i]
           IN  [q |-> <<t \div d>> \o up.q, r |-> t % d]

NDivLimb(a, d) == NTrim(NDivR(a, d, 1).q)

RECURSIVE NPow10(_)
NPow10(k) == IF k = 0 THEN <<1>> ELSE NMulLimb(NPow10(k - 1), 10)

RECURSIVE NDivPow10(_, _)
NDivPow10(a, k) == IF k = 0 THEN a ELSE NDivPow10(NDivLimb(a, 10), k - 1)

\* The value of a as an integer (a below 2^31)
RECURSIVE IntOf(_)
IntOf(a) == IF a = <<>> THEN 0 ELSE Head(a) + Base * IntOf(Tail(a))

\* decimal.Decimal: n * 10^-places for an integer n
Dec(n, places) == [neg |-> n < 0, mag |-> NatOf(IF n < 0 THEN -n ELSE n), places |-> places]

\* The coefficient of a at the given (not smaller) number of places
DScale(a, places) == NMul(a.mag, NPow10(places - a.places))

DNeg(a) == [a EXCEPT !.neg = (a.mag # <<>>) /\ ~a.neg]

DAdd(a, b) ==
    LET p == IF a.places > b.places THEN a.places ELSE b.places
        x == DScale(a, p)
        y == DScale(b, p)
    IN  IF a.neg = b.neg
          THEN [neg |-> a.neg /\ (x # <<>> \/ y # <<>>), mag |-> NAdd(x, y), places |-> p]
          ELSE CASE NCmp(x, y) = 0 -> [neg |-> FALSE, mag |-> <<>>, places |-> p]
                 [] NCmp(x, y) = 1 -> [neg |-> a.neg, mag |-> NSub(x, y), places |-> p]
                 [] OTHER -> [neg |-> b.neg, mag |-> NSub(y, x), places |-> p]

DSub(a, b) == DAdd(a, DNeg(b))

DMul(a, b) ==
    LET m == NMul(a.mag, b.mag)
    IN  [neg |-> (m # <<>>) /\ (a.neg # b.neg), mag |-> m, places |-> a.places + b.places]

\* -1, 0, 1 as a < b, a = b, a > b
DCmp(a, b) ==
    LET d == DSub(a, b)
    IN  IF d.mag = <<>> THEN 0 ELSE IF d.neg THEN -1 ELSE 1

DAbs(a) == [a EXCEPT !.neg = FALSE]

\* Decimal.quantize(10^-places, rounding)
quantize(a, places, rounding) ==
    IF a.places <= places
      THEN [a EXCEPT !.mag = DScale(a, places), !.places = places]
      ELSE LET k == a.places - places
               q == NDivPow10(a.mag, k)
               r == NSub(a.mag, NMul(q, NPow10(k)))
               half == NCmp(NMulLimb(r, 2), NPow10(k))
               odd == q # <<>> /\ Head(q) % 2 = 1
               up == CASE rounding = "ROUND_UP" -> r # <<>>
                       [] rounding = "ROUND_DOWN" -> FALSE
                       [] rounding = "ROUND_HALF_EVEN" -> half = 1 \/ (half = 0 /\ odd)
               m == IF up THEN NAdd(q, <<1>>) ELSE q
           IN  [neg |-> a.neg /\ m # <<>>, mag |-> m, places |-> places]

ZERO == Dec(0, 0)

\* Optional values: None is the empty sequence, a value v is <<v>>.
None == <<>>

Some(v) == <<v>>

_as_decimal(value) == IF value = None THEN ZERO ELSE value[1]

(***************************************************************************)
(* weatherlink.utils.calculate_10_minute_wind_average                      *)
(*                                                                         *)
(* A record is (wind_speed, wind_speed_direction, timestamp_station,       *)
(* minutes_covered); timestamps count minutes, so subtracting a timedelta  *)
(* of i minutes subtracts i.  The result is a 4-tuple of optional values.  *)
(***************************************************************************)

\* collections.deque(maxlen=10)
maxlen == 10

\* deque.extend: items enter on the right, the oldest leave on the left
extend(queue, items) ==
    LET all == queue \o items
    IN  IF Len(all) <= maxlen THEN all ELSE SubSeq(all, Len(all) - maxlen + 1, Len(all))

\* [value] * count
RECURSIVE Repeat(_, _)
Repeat(value, count) == IF count <= 0 THEN <<>> ELSE <<value>> \o Repeat(value, count - 1)

\* [timestamp - timedelta(minutes=i) for i in range(minutes_covered - 1, -1, -1)]
RECURSIVE Minutes(_, _)
Minutes(timestamp, minutes_covered) ==
    IF minutes_covered <= 0 THEN <<>>
    ELSE <<timestamp - (minutes_covered - 1)>> \o Minutes(timestamp, minutes_covered - 1)

\* sum(speed_queue)
RECURSIVE sum(_)
sum(queue) == IF queue = <<>> THEN ZERO ELSE DAdd(Head(queue), sum(Tail(queue)))

\* The number of times value occurs in list
RECURSIVE Count(_, _)
Count(list, value) ==
    IF list = <<>> THEN 0
    ELSE (IF Head(list) = value THEN 1 ELSE 0) + Count(Tail(list), value)

\* collections.Counter(list).most_common()[0][0]: the sort by count is
\* stable and a Counter keeps insertion order, so among the elements with
\* the highest count the one that entered the list first comes first.
most_common(list) ==
    LET best == CHOOSE i \in 1..Len(list) :
                    /\ \A j \in 1..Len(list) : Count(list, list[j]) <= Count(list, list[i])
                    /\ \A j \in 1..(i - 1) : Count(list, list[j]) < Count(list, list[i])
    IN  list[best]

NoWindAverage == <<None, None, None, None>>

\* The local variables before the loop
WindAverageStart ==
    [speed_queue |-> <<>>, direction_queue |-> <<>>, timestamp_queue |-> <<>>,
     current_max |-> ZERO, current_direction_list |-> <<>>, current_timestamp_list |-> <<>>]

\* One pass of the loop body that replaces the maximum by an equal average.
wind_average_step_keeping_latest(st, record) ==
    LET speeds == extend(st.speed_queue, Repeat(_as_decimal(record[1]), record[4]))
        directions == extend(st.direction_queue, Repeat(record[2], record[4]))
        timestamps ==
            IF record[4] = 1
              THEN extend(st.timestamp_queue, <<record[3]>>)
              ELSE extend(st.timestamp_queue, Minutes(record[3], record[4]))
        queued == [st EXCEPT !.speed_queue = speeds, !.direction_queue = directions,
                             !.timestamp_queue = timestamps]
        average == DMul(sum(speeds), Dec(1, 1))
    IN  IF Len(speeds) = 10 /\ DCmp(average, st.current_max) >= 0
          THEN [queued EXCEPT !.current_max = average,
                              !.current_direction_list = directions,
                              !.current_timestamp_list = timestamps]
          ELSE queued

\* A step that takes the average of the full queue whatever the maximum so
\* far is.
wind_average_step_taking_latest(st, record) ==
    LET speeds == extend(st.speed_queue, Repeat(_as_decimal(record[1]), record[4]))
        directions == extend(st.direction_queue, Repeat(record[2], record[4]))
        timestamps ==
            IF record[4] = 1
              THEN extend(st.timestamp_queue, <<record[3]>>)
              ELSE extend(st.timestamp_queue, Minutes(record[3], record[4]))
        queued == [st EXCEPT !.speed_queue = speeds, !.direction_queue = directions,
                             !.timestamp_queue = timestamps]
    IN  IF Len(speeds) = 10
          THEN [queued EXCEPT !.current_max = DMul(sum(speeds), Dec(1, 1)),
                              !.current_direction_list = directions,
                              !.current_timestamp_list = timestamps]
          ELSE queued

\* One pass of the loop body for a record of at most 10 minutes.
wind_average_step(st, record) ==
    LET speeds == extend(st.speed_queue, Repeat(_as_decimal(record[1]), record[4]))
        directions == extend(st.direction_queue, Repeat(record[2], record[4]))
        timestamps ==
            IF record[4] = 1
              THEN extend(st.timestamp_queue, <<record[3]>>)
              ELSE extend(st.timestamp_queue, Minutes(record[3], record[4]))
        queued == [st EXCEPT !.speed_queue = speeds, !.direction_queue = directions,
                             !.timestamp_queue = timestamps]
        \* sum(speed_queue) / 10, exact with one more decimal place
        average == DMul(sum(speeds), Dec(1, 1))
    IN  IF Len(speeds) = 10 /\ DCmp(average, st.current_max) = 1
          THEN [queued EXCEPT !.current_max = average,
                              !.current_direction_list = directions,
                              !.current_timestamp_list = timestamps]
          ELSE queued

\* The statements after the loop
wind_average_return(st) ==
    IF DCmp(st.current_max, ZERO) = 1
      THEN <<Some(st.current_max),
             IF st.current_direction_list # <<>>
               THEN Some(most_common(st.current_direction_list)) ELSE None,
             IF st.current_timestamp_list # <<>>
               THEN Some(st.current_timestamp_list[1]) ELSE None,
             IF st.current_timestamp_list # <<>>
               THEN Some(st.current_timestamp_list[Len(st.current_timestamp_list)]) ELSE None>>
      ELSE NoWindAverage

RECURSIVE wind_average_loop_skipping(_, _)
RECURSIVE wind_average_loop(_, _)

\* A loop that leaves out a record of more than 10 minutes and goes on.
wind_average_loop_skipping(records, st) ==
    IF records = <<>> THEN wind_average_return(st)
    ELSE IF Head(records)[4] > 10 THEN wind_average_loop_skipping(Tail(records), st)
    ELSE wind_average_loop_skipping(Tail(records), wind_average_step(st, Head(records)))

\* for (...) in records: a record of more than 10 minutes ends the call
wind_average_loop(records, st) ==
    IF records = <<>> THEN wind_average_return(st)
    ELSE IF Head(records)[4] > 10 THEN NoWindAverage
    ELSE wind_average_loop(Tail(records), wind_average_step(st, Head(records)))

calculate_10_minute_wind_average(records) == wind_average_loop(records, WindAverageStart)

\* The batches of records the function is called with: every batch of at
\* most MaxRecords records over a few speeds, directions and durations, each
\* record ending where the next begins, and the batches of the assertions
\* that follow the function in the source.
MaxRecords == 3

WindSpeeds == {None, Some(Dec(2, 0))}

Directions == {"NW", "NNW"}

MinutesCovered == {1, 5, 10, 11}

RECURSIVE Timestamped(_, _)
Timestamped(samples, start) ==
    IF samples = <<>> THEN <<>>
    ELSE LET s == Head(samples)
         IN  <<<<s[1], s[2], start + s[3], s[3]>>>> \o Timestamped(Tail(samples), start + s[3])

AssertedBatches ==
    LET one == Some(Dec(1, 0))
        two == Some(Dec(2, 0))
        three == Some(Dec(3, 0))
    IN  { <<>>,
          << <<one, "NW", 365, 5>>, <<one, "NNW", 375, 10>>,
             <<two, "WNW", 386, 11>>, <<one, "NE", 387, 1>> >>,
          << <<one, "NW", 370, 10>>, <<one, "NNW", 380, 10>>,
             <<two, "WNW", 390, 10>>, <<one, "NE", 400, 10>> >>,
          << <<one, "NW", 365, 5>>, <<one, "NNW", 370, 5>>,
             <<two, "WNW", 375, 5>>, <<one, "NE", 380, 5>> >>,
          << <<one, "NW", 362, 2>>, <<one, "NNW", 364, 2>>, <<two, "N", 366, 2>>,
             <<one, "NE", 368, 2>>, <<three, "NE", 370, 2>>, <<one, "N", 372, 2>>,
             <<two, "NE", 374, 2>>, <<one, "NNW", 376, 2>>, <<one, "NNW", 378, 2>>,
             <<two, "NNW", 380, 2>> >> }

Batches ==
    AssertedBatches \cup
    { Timestamped(samples, 360) :
        samples \in UNION { [1..n -> WindSpeeds \X Directions \X MinutesCovered] :
                            n \in 0..MaxRecords } }

WindAverageInit ==
    /\ Constructed
    /\ pc = "call"
    /\ inputs \in { [fn |-> "calculate_10_minute_wind_average", records |-> b] : b \in Batches }
    /\ output = <<>>
    /\ failure = "None"
    /\ unrounded = <<>>

CalculateWindAverage ==
    /\ pc = "call"
    /\ inputs.fn = "calculate_10_minute_wind_average"
    /\ pc' = "done"
    /\ output' = calculate_10_minute_wind_average(inputs.records)
    /\ UNCHANGED <<commVars, inputs, failure, unrounded>>

WindAverageNext == CalculateWindAverage

WindAverageSpec == WindAverageInit /\ [][WindAverageNext]_vars

WindAverageDone == pc = "done" /\ inputs.fn = "calculate_10_minute_wind_average"

\* C7: calculate_10_minute_wind_average returns (None, None, None, None) for
\* the empty batch and for every batch in which some record, at whatever
\* position, covers more than 10 minutes, whatever the other records are.
C7_Unanalyzable ==
    WindAverageDone =>
        LET records == inputs.records
        IN  (records = <<>> \/ \E i \in 1..Len(records) : records[i][4] > 10)
                => output = <<<<>>, <<>>, <<>>, <<>>>>

\* A record of more than 10 minutes comes after a 10-minute record of positive
\* speed, which alone would have given a positive average.
C7_Witness ==
    /\ WindAverageDone
    /\ Len(inputs.records) = 2
    /\ inputs.records[1][4] = 10
    /\ inputs.records[1][1] = <<Dec(2, 0)>>
    /\ inputs.records[2][4] = 11
    /\ output = <<<<>>, <<>>, <<>>, <<>>>>

\* The one-minute slots of a record, oldest first, speeds as whole numbers.
SlotsOf(record) ==
    [i \in 1..record[4] |->
        [speed |-> IF record[1] = <<>> THEN 0 ELSE IntOf(record[1][1].mag),
         direction |-> record[2],
         timestamp |-> record[3] - (record[4] - i)]]

RECURSIVE AllSlots(_)
AllSlots(records) ==
    IF records = <<>> THEN <<>> ELSE SlotsOf(Head(records)) \o AllSlots(Tail(records))

\* The 10 most recent slots once the first k records are in.
WindowAfter(records, k) ==
    LET slots == AllSlots(SubSeq(records, 1, k))
    IN  SubSeq(slots, Len(slots) - 9, Len(slots))

\* The records after which 10 slots are held.
FullAfter(records) ==
    { k \in 1..Len(records) : Len(AllSlots(SubSeq(records, 1, k))) >= 10 }

\* Ten times the mean speed of a window.
RECURSIVE TotalSpeed(_)
TotalSpeed(window) ==
    IF window = <<>> THEN 0 ELSE Head(window).speed + TotalSpeed(Tail(window))

Occurrences(window, direction) ==
    Cardinality({ i \in 1..Len(window) : window[i].direction = direction })

FirstSlotOf(window, direction) ==
    CHOOSE i \in 1..Len(window) :
        /\ window[i].direction = direction
        /\ \A j \in 1..(i - 1) : window[j].direction # direction

\* direction is the most common one of the window, and of the equally common
\* ones the one met first.
PrevailingIn(window, direction) ==
    /\ \E i \in 1..Len(window) : window[i].direction = direction
    /\ \A j \in 1..Len(window) :
          LET other == window[j].direction
          IN  \/ Occurrences(window, other) < Occurrences(window, direction)
              \/ /\ Occurrences(window, other) = Occurrences(window, direction)
                 /\ FirstSlotOf(window, direction) <= FirstSlotOf(window, other)

\* C8: for a batch of records of 1 to 10 minutes each, the result is that of
\* the earliest window of 10 one-minute slots, taken after a record, whose
\* mean speed is the highest: (mean, most common direction of the window with
\* ties going to the direction met first, timestamp of the oldest slot,
\* timestamp of the newest slot); it is all None when no window has a mean
\* above 0.  Four 10-minute records of speeds 1, 1, 2, 1 ending 06:10..06:40
\* give (2, WNW, 06:21, 06:30), four 5-minute records of speeds 1, 1, 2, 1
\* ending 06:05..06:20 give (1.5, NNW, 06:06, 06:15).
C8_WindAverage ==
    WindAverageDone =>
        LET records == inputs.records
            full == FullAfter(records)
            tops == { k \in full :
                        \A j \in full :
                            /\ TotalSpeed(WindowAfter(records, j)) <= TotalSpeed(WindowAfter(records, k))
                            /\ j < k => TotalSpeed(WindowAfter(records, j)) < TotalSpeed(WindowAfter(records, k)) }
        IN  (\A i \in 1..Len(records) : records[i][4] \in 1..10) =>
              /\ (\A k \in full : TotalSpeed(WindowAfter(records, k)) = 0)
                    => output = <<<<>>, <<>>, <<>>, <<>>>>
              /\ \A k \in tops :
                    LET window == WindowAfter(records, k)
                    IN  TotalSpeed(window) > 0 =>
                          /\ \A i \in 1..4 : Len(output[i]) = 1
                          /\ DCmp(output[1][1], Dec(TotalSpeed(window), 1)) = 0
                          /\ PrevailingIn(window, output[2][1])
                          /\ output[3][1] = window[1].timestamp
                          /\ output[4][1] = window[10].timestamp
              /\ records = << <<(<<Dec(1, 0)>>), "NW", 370, 10>>, <<(<<Dec(1, 0)>>), "NNW", 380, 10>>,
                              <<(<<Dec(2, 0)>>), "WNW", 390, 10>>, <<(<<Dec(1, 0)>>), "NE", 400, 10>> >>
                    => /\ DCmp(output[1][1], Dec(2, 0)) = 0
                       /\ <<output[2], output[3], output[4]>> = <<(<<"WNW">>), <<381>>, <<390>>>>
              /\ records = << <<(<<Dec(1, 0)>>), "NW", 365, 5>>, <<(<<Dec(1, 0)>>), "NNW", 370, 5>>,
                              <<(<<Dec(2, 0)>>), "WNW", 375, 5>>, <<(<<Dec(1, 0)>>), "NE", 380, 5>> >>
                    => /\ DCmp(output[1][1], Dec(15, 1)) = 0
                       /\ <<output[2], output[3], output[4]>> = <<(<<"NNW">>), <<366>>, <<375>>>>

\* Three 5-minute records: the windows after the second and after the third
\* record have the same positive mean, and the earlier one, in which two
\* directions are equally common, is reported with the direction met first.
C8_Witness ==
    /\ WindAverageDone
    /\ Len(inputs.records) = 3
    /\ \A i \in 1..3 : inputs.records[i][4] = 5 /\ inputs.records[i][1] = <<Dec(2, 0)>>
    /\ inputs.records[1][2] = "NNW"
    /\ inputs.records[2][2] = "NW"
    /\ inputs.records[3][2] = "NW"
    /\ output = <<(<<Dec(20, 1)>>), <<"NNW">>, <<361>>, <<370>>>>

(***************************************************************************)
(* weatherlink.utils: roots and powers.                                    *)
(*                                                                         *)
(* Decimal.sqrt() and ** give the root correctly rounded to 28 digits; a   *)
(* root that is not a decimal itself has no finite expansion.  The model   *)
(* knows a root to Digits decimal places: the value used is any of the     *)
(* neighbouring decimals that enclose it, and the one decimal when the     *)
(* root is exact.                                                          *)
(***************************************************************************)

Digits == 6

RECURSIVE NPow(_, _)
NPow(a, n) == IF n = 0 THEN <<1>> ELSE NMul(a, NPow(a, n - 1))

\* (s / 10^Digits)^degree <= n / d, for target = n * 10^(degree * Digits)
RootAtMost(s, degree, target, d) == NCmp(NMul(d, NPow(NatOf(s), degree)), target) <= 0

\* The largest s with RootAtMost(s), between lo (at most) and hi (not at most)
RECURSIVE RootBetween(_, _, _, _, _)
RootBetween(lo, hi, degree, target, d) ==
    IF hi - lo <= 1 THEN lo
    ELSE LET mid == (lo + hi) \div 2
         IN  IF RootAtMost(mid, degree, target, d)
               THEN RootBetween(mid, hi, degree, target, d)
               ELSE RootBetween(lo, mid, degree, target, d)

RECURSIVE RootAbove(_, _, _, _)
RootAbove(hi, degree, target, d) ==
    IF RootAtMost(hi, degree, target, d) THEN RootAbove(2 * hi, degree, target, d) ELSE hi

\* The root of x / y (x >= 0, y > 0) of the given degree in units of
\* 10^-Digits: the integers next below and next above it, equal when exact
Root(x, y, degree) ==
    LET p == IF x.places > y.places THEN x.places ELSE y.places
        d == DScale(y, p)
        target == NMul(DScale(x, p), NPow10(degree * Digits))
        s == RootBetween(0, RootAbove(1, degree, target, d), degree, target, d)
        exact == NCmp(NMul(d, NPow(NatOf(s), degree)), target) = 0
    IN  [below |-> s, above |-> IF exact THEN s ELSE s + 1]

\* (x / y).sqrt() for y > 0: InvalidOperation for a negative quotient
sqrt_of_quotient(x, y) ==
    IF x.neg
      THEN [invalid |-> TRUE, values |-> {}]
      ELSE [invalid |-> FALSE,
            values |-> { Dec(s, Digits) : s \in {Root(x, y, 2).below, Root(x, y, 2).above} }]

\* x ** exponent for x > 0 and the exponent 0.16 = 4/25: the fifth root of
\* the fifth root of x^4, each enclosed to Digits places.
power(x, exponent) ==
    LET fourth == DMul(DMul(x, x), DMul(x, x))
        inner == Root(fourth, Dec(1, 0), 5)
        below == Root(Dec(inner.below, Digits), Dec(1, 0), 5).below
        above == Root(Dec(inner.above, Digits), Dec(1, 0), 5).above
    IN  CASE DCmp(exponent, Dec(16, 2)) = 0 -> { Dec(v, Digits) : v \in below..above }

(***************************************************************************)
(* weatherlink.utils.calculate_heat_index                                  *)
(*                                                                         *)
(* The outcomes of a call: what it raises, what it returns, and the value  *)
(* it rounded to what it returns.                                          *)
(***************************************************************************)

Returns(value, exact) == [failure |-> "None", value |-> value, unrounded |-> exact]

Raises(exception) == [failure |-> exception, value |-> None, unrounded |-> None]

HEAT_INDEX_THRESHOLD == Dec(700, 1)

HI_SECOND_FORMULA_THRESHOLD == Dec(800, 1)

HI_0_094 == Dec(94, 3)

HI_0_5 == Dec(5, 1)

HI_1_2 == Dec(12, 1)

HI_61_0 == Dec(610, 1)

HI_68_0 == Dec(680, 1)

HI_C1 == Dec(-42379, 3)

HI_C2 == Dec(204901523, 8)

HI_C3 == Dec(1014333127, 8)

HI_C4 == Dec(-22475541, 8)

HI_C5 == Dec(-683783, 8)

HI_C6 == Dec(-5481717, 8)

HI_C7 == Dec(122874, 8)

HI_C8 == Dec(85282, 8)

HI_C9 == Dec(-199, 8)

HI_FIRST_ADJUSTMENT_THRESHOLD == <<Dec(800, 1), Dec(1120, 1), Dec(130, 1)>>

HI_13 == Dec(13, 0)

HI_17 == Dec(17, 0)

HI_95 == Dec(95, 0)

HI_SECOND_ADJUSTMENT_THRESHOLD == <<Dec(800, 1), Dec(870, 1), Dec(850, 1)>>

HI_85 == Dec(85, 0)

HI_87 == Dec(87, 0)

_abs(d) == IF DCmp(d, DNeg(d)) >= 0 THEN d ELSE DNeg(d)

\* A rounding of the heat index to the nearest tenth.
round_heat_index_to_nearest(heat_index) == quantize(heat_index, 1, "ROUND_HALF_EVEN")

\* heat_index.quantize(ONE_TENTH, rounding=decimal.ROUND_UP)
round_heat_index(heat_index) == quantize(heat_index, 1, "ROUND_UP")

\* The regression of the second formula
heat_index_regression(T, RH) ==
    DAdd(DAdd(DAdd(DAdd(DAdd(DAdd(DAdd(DAdd(
        HI_C1,
        DMul(HI_C2, T)),
        DMul(HI_C3, RH)),
        DMul(DMul(HI_C4, T), RH)),
        DMul(DMul(HI_C5, T), T)),
        DMul(DMul(HI_C6, RH), RH)),
        DMul(DMul(DMul(HI_C7, T), T), RH)),
        DMul(DMul(DMul(HI_C8, T), RH), RH)),
        DMul(DMul(DMul(DMul(HI_C9, T), T), RH), RH))

calculate_heat_index(temperature, relative_humidity) ==
    IF DCmp(temperature, HEAT_INDEX_THRESHOLD) < 0 THEN {Returns(None, None)}
    ELSE
    LET T == temperature
        RH == _as_decimal(relative_humidity)
        simple == DMul(HI_0_5, DAdd(DAdd(DAdd(T, HI_61_0), DMul(DSub(T, HI_68_0), HI_1_2)),
                                    DMul(RH, HI_0_094)))
        \* (heat_index + T) / TWO
        average == DMul(DAdd(simple, T), Dec(5, 1))
        regression == heat_index_regression(T, RH)
        root == sqrt_of_quotient(DSub(HI_17, _abs(DSub(T, HI_95))), HI_17)
    IN  IF DCmp(average, HI_SECOND_FORMULA_THRESHOLD) < 0
          THEN {Returns(Some(round_heat_index(average)), Some(average))}
        ELSE IF /\ DCmp(HI_FIRST_ADJUSTMENT_THRESHOLD[1], T) <= 0
                /\ DCmp(T, HI_FIRST_ADJUSTMENT_THRESHOLD[2]) <= 0
                /\ DCmp(RH, HI_FIRST_ADJUSTMENT_THRESHOLD[3]) < 0
          THEN IF root.invalid THEN {Raises("InvalidOperation")}
               ELSE { Returns(Some(round_heat_index(heat_index)), Some(heat_index)) :
                        heat_index \in
                          \* heat_index -= ((HI_13 - RH) / FOUR) * (...).sqrt()
                          { DSub(regression, DMul(DMul(DSub(HI_13, RH), Dec(25, 2)), r)) :
                              r \in root.values } }
        ELSE IF /\ DCmp(HI_SECOND_ADJUSTMENT_THRESHOLD[1], T) <= 0
                /\ DCmp(T, HI_SECOND_ADJUSTMENT_THRESHOLD[2]) <= 0
                /\ DCmp(RH, HI_SECOND_ADJUSTMENT_THRESHOLD[3]) > 0
          THEN LET \* heat_index += ((RH - HI_85) / TEN) * ((HI_87 - T) / FIVE)
                   heat_index == DAdd(regression, DMul(DMul(DSub(RH, HI_85), Dec(1, 1)),
                                                       DMul(DSub(HI_87, T), Dec(2, 1))))
               IN  {Returns(Some(round_heat_index(heat_index)), Some(heat_index))}
        ELSE {Returns(Some(round_heat_index(regression)), Some(regression))}

\* The calls: temperatures from 65.0 F upwards in steps of half a degree, and
\* next to the thresholds of the function in tenths of a degree; relative
\* humidities from 0 to 100 in steps of 5, next to the thresholds of the two
\* adjustments, and None.
HeatIndexSteps == 100

HeatIndexTemperatures ==
    { Dec(650 + 5 * k, 1) : k \in 0..HeatIndexSteps } \cup
    { Dec(t, 1) : t \in {699, 701, 799, 801, 869, 871, 1119, 1121} }

Humidities ==
    {None} \cup { Some(Dec(5 * k, 0)) : k \in 0..20 } \cup
    { Some(Dec(h, 0)) : h \in {12, 13, 14, 84, 86} }

HeatIndexInit ==
    /\ Constructed
    /\ pc = "call"
    /\ inputs \in { [fn |-> "calculate_heat_index", temperature |-> t, relative_humidity |-> h] :
                        t \in HeatIndexTemperatures, h \in Humidities }
    /\ output = <<>>
    /\ failure = "None"
    /\ unrounded = <<>>

CalculateHeatIndex ==
    /\ pc = "call"
    /\ inputs.fn = "calculate_heat_index"
    /\ pc' = "done"
    /\ \E outcome \in calculate_heat_index(inputs.temperature, inputs.relative_humidity) :
          /\ output' = outcome.value
          /\ failure' = outcome.failure
          /\ unrounded' = outcome.unrounded
    /\ UNCHANGED <<commVars, inputs>>

HeatIndexNext == CalculateHeatIndex

HeatIndexSpec == HeatIndexInit /\ [][HeatIndexNext]_vars

HeatIndexDone == pc = "done" /\ inputs.fn = "calculate_heat_index"

\* C9: calculate_heat_index returns None for every temperature below 70 and
\* a value, without raising, for every temperature of 70 or more (relative
\* humidity from 0 to 100); a value returned has exactly one decimal place
\* and is the unrounded heat index rounded away from zero: it is not nearer
\* to zero than the unrounded value and less than a tenth away from it.
C9_HeatIndex ==
    HeatIndexDone =>
        /\ DCmp(inputs.temperature, Dec(70, 0)) < 0 => failure = "None" /\ output = <<>>
        /\ DCmp(inputs.temperature, Dec(70, 0)) >= 0 => failure = "None" /\ Len(output) = 1
        /\ Len(output) = 1 =>
              /\ Len(unrounded) = 1
              /\ output[1].places = 1
              /\ DCmp(DAbs(output[1]), DAbs(unrounded[1])) >= 0
              /\ DCmp(DSub(DAbs(output[1]), DAbs(unrounded[1])), Dec(1, 1)) < 0
              /\ output[1].mag # <<>> => output[1].neg = unrounded[1].neg

\* At 90 F and 0 % the regression with the low-humidity correction, which
\* takes the square root of 12/17, gives a value between 83.91 and 83.92,
\* returned as 84.0.
C9_Witness ==
    /\ HeatIndexDone
    /\ inputs.temperature = Dec(900, 1)
    /\ inputs.relative_humidity = <<Dec(0, 0)>>
    /\ failure = "None"
    /\ output = <<Dec(840, 1)>>
    /\ DCmp(unrounded[1], Dec(8391, 2)) > 0
    /\ DCmp(unrounded[1], Dec(8392, 2)) < 0

(***************************************************************************)
(* weatherlink.utils.calculate_wind_chill                                  *)
(***************************************************************************)

WIND_CHILL_THRESHOLD == Dec(400, 1)

WC_C1 == Dec(3574, 2)

WC_C2 == Dec(6215, 4)

WC_C3 == Dec(3575, 2)

WC_C4 == Dec(4275, 4)

WC_V_EXP == Dec(16, 2)

\* A return of the rounded formula result as it is.
wind_chill_unbounded(T, wind_chill) == wind_chill

\* return T if wind_chill > T else wind_chill
wind_chill_or_temperature(T, wind_chill) == IF DCmp(wind_chill, T) > 0 THEN T ELSE wind_chill

calculate_wind_chill(temperature, wind_speed) ==
    IF DCmp(temperature, WIND_CHILL_THRESHOLD) > 0 THEN {Returns(None, None)}
    ELSE
    LET T == temperature
        WS == _as_decimal(wind_speed)
    IN  IF WS.neg THEN {Raises("InvalidOperation")}
        ELSE IF DCmp(WS, ZERO) = 0 THEN {Returns(Some(T), None)}
        ELSE { LET formula == DAdd(DSub(DAdd(WC_C1, DMul(WC_C2, T)), DMul(WC_C3, V)),
                                   DMul(DMul(WC_C4, T), V))
                   \* .quantize(ONE_TENTH) rounds as the context does
                   wind_chill == quantize(formula, 1, "ROUND_HALF_EVEN")
               IN  Returns(Some(wind_chill_or_temperature(T, wind_chill)), Some(formula)) :
               V \in power(WS, WC_V_EXP) }

\* The calls: temperatures from -40.0 F upwards in steps of 2.5 degrees and
\* next to the threshold; wind speeds of zero, None, and from a light air to
\* a hurricane.
WindChillSteps == 34

WindChillTemperatures ==
    { Dec(25 * k - 400, 1) : k \in 0..WindChillSteps } \cup { Dec(t, 1) : t \in {399, 401} }

WindChillSpeeds ==
    {None, Some(Dec(0, 0)), Some(Dec(0, 1))} \cup
    { Some(Dec(w, 1)) : w \in {1, 5, 10, 20, 30, 50, 100, 150, 200, 300, 400, 600, 1000} }

WindChillInit ==
    /\ Constructed
    /\ pc = "call"
    /\ inputs \in { [fn |-> "calculate_wind_chill", temperature |-> t, wind_speed |-> w] :
                        t \in WindChillTemperatures, w \in WindChillSpeeds }
    /\ output = <<>>
    /\ failure = "None"
    /\ unrounded = <<>>

CalculateWindChill ==
    /\ pc = "call"
    /\ inputs.fn = "calculate_wind_chill"
    /\ pc' = "done"
    /\ \E outcome \in calculate_wind_chill(inputs.temperature, inputs.wind_speed) :
          /\ output' = outcome.value
          /\ failure' = outcome.failure
          /\ unrounded' = outcome.unrounded
    /\ UNCHANGED <<commVars, inputs>>

WindChillNext == CalculateWindChill

WindChillSpec == WindChillInit /\ [][WindChillNext]_vars

WindChillDone == pc = "done" /\ inputs.fn = "calculate_wind_chill"

\* C10: calculate_wind_chill returns None for every temperature above 40;
\* for a temperature of 40 or less it returns the temperature itself when the
\* wind speed is zero or missing, and for a wind speed above zero a value that
\* is never greater than the temperature.
C10_WindChill ==
    WindChillDone =>
        LET T == inputs.temperature
            calm == \/ inputs.wind_speed = <<>>
                    \/ inputs.wind_speed[1].mag = <<>>
        IN  /\ failure = "None"
            /\ DCmp(T, Dec(40, 0)) > 0 => output = <<>>
            /\ DCmp(T, Dec(40, 0)) <= 0 /\ calm => output = <<T>>
            /\ DCmp(T, Dec(40, 0)) <= 0 /\ ~calm =>
                  /\ Len(output) = 1
                  /\ DCmp(output[1], T) <= 0

\* At 10.0 F and a wind of 1 mph the formula gives 10.48, which is above the
\* temperature: the temperature is returned.
C10_Witness ==
    /\ WindChillDone
    /\ inputs.temperature = Dec(100, 1)
    /\ inputs.wind_speed = <<Dec(10, 1)>>
    /\ DCmp(unrounded[1], Dec(1048, 2)) = 0
    /\ output = <<Dec(100, 1)>>

(***************************************************************************)
(* weatherlink.utils.calculate_all_record_values: the five triples         *)
(* (representative, low, high) of derived values of a record.              *)
(*                                                                         *)
(* calculate_dew_point and calculate_thsw_index go through Decimal.exp()   *)
(* and Decimal.ln(), which the model does not compute: the two functions   *)
(* are given by the values they return, quantized to a tenth, at the       *)
(* arguments the records of the model lead to.                             *)
(***************************************************************************)

\* bool(value): None and a Decimal equal to zero are false
Truthy(value) == value # None /\ value[1].mag # <<>>

\* if v: l.append(v)
_append_to_list(l, v) == IF Truthy(v) THEN Append(l, v[1]) ELSE l

\* _append_to_list(a, f(...)) for every list a can be by now and every
\* outcome the call f(...) can have
appended(lists, outcomes) == { _append_to_list(l, o.value) : l \in lists, o \in outcomes }

\* min(a): the first of the smallest elements
min(a) ==
    a[CHOOSE i \in 1..Len(a) :
        /\ \A j \in 1..Len(a) : DCmp(a[i], a[j]) <= 0
        /\ \A j \in 1..(i - 1) : DCmp(a[i], a[j]) < 0]

\* The last element of the list in the place of its greatest.
last(a) == a[Len(a)]

\* max(a): the first of the greatest elements
max(a) ==
    a[CHOOSE i \in 1..Len(a) :
        /\ \A j \in 1..Len(a) : DCmp(a[i], a[j]) >= 0
        /\ \A j \in 1..(i - 1) : DCmp(a[i], a[j]) > 0]

DewPoints ==
    (<<Dec(100, 1), Dec(27, 0)>> :> Dec(-174, 1)) @@
    (<<Dec(300, 1), Dec(27, 0)>> :> Dec(0, 1)) @@
    (<<Dec(800, 1), Dec(27, 0)>> :> Dec(428, 1)) @@
    (<<Dec(900, 1), Dec(27, 0)>> :> Dec(511, 1))

calculate_dew_point(temperature, relative_humidity) ==
    {Returns(Some(DewPoints[<<temperature, _as_decimal(relative_humidity)>>]), None)}

THW_INDEX_CONSTANT == Dec(1072, 3)

calculate_thw_index(temperature, relative_humidity, wind_speed) ==
    { LET hi == o.value
          WS == _as_decimal(wind_speed)
      IN  IF ~Truthy(hi) THEN Returns(None, None)
          ELSE Returns(Some(DSub(hi[1], quantize(DMul(THW_INDEX_CONSTANT, WS), 1, "ROUND_DOWN"))),
                       None) :
      o \in calculate_heat_index(temperature, relative_humidity) }

ThswIndexes ==
    (<<Dec(100, 1), Dec(27, 0), Dec(500, 0), Dec(0, 0)>> :> Dec(658, 1)) @@
    (<<Dec(100, 1), Dec(27, 0), Dec(500, 0), Dec(6, 0)>> :> Dec(491, 1)) @@
    (<<Dec(100, 1), Dec(27, 0), Dec(500, 0), Dec(10, 0)>> :> Dec(407, 1)) @@
    (<<Dec(100, 1), Dec(27, 0), Dec(800, 0), Dec(0, 0)>> :> Dec(1036, 1)) @@
    (<<Dec(100, 1), Dec(27, 0), Dec(800, 0), Dec(6, 0)>> :> Dec(789, 1)) @@
    (<<Dec(100, 1), Dec(27, 0), Dec(800, 0), Dec(10, 0)>> :> Dec(668, 1)) @@
    (<<Dec(300, 1), Dec(27, 0), Dec(500, 0), Dec(0, 0)>> :> Dec(863, 1)) @@
    (<<Dec(300, 1), Dec(27, 0), Dec(500, 0), Dec(6, 0)>> :> Dec(696, 1)) @@
    (<<Dec(300, 1), Dec(27, 0), Dec(500, 0), Dec(10, 0)>> :> Dec(612, 1)) @@
    (<<Dec(300, 1), Dec(27, 0), Dec(800, 0), Dec(0, 0)>> :> Dec(1241, 1)) @@
    (<<Dec(300, 1), Dec(27, 0), Dec(800, 0), Dec(6, 0)>> :> Dec(994, 1)) @@
    (<<Dec(300, 1), Dec(27, 0), Dec(800, 0), Dec(10, 0)>> :> Dec(873, 1)) @@
    (<<Dec(800, 1), Dec(27, 0), Dec(500, 0), Dec(0, 0)>> :> Dec(1412, 1)) @@
    (<<Dec(800, 1), Dec(27, 0), Dec(500, 0), Dec(6, 0)>> :> Dec(1245, 1)) @@
    (<<Dec(800, 1), Dec(27, 0), Dec(500, 0), Dec(10, 0)>> :> Dec(1161, 1)) @@
    (<<Dec(800, 1), Dec(27, 0), Dec(800, 0), Dec(0, 0)>> :> Dec(1790, 1)) @@
    (<<Dec(800, 1), Dec(27, 0), Dec(800, 0), Dec(6, 0)>> :> Dec(1543, 1)) @@
    (<<Dec(800, 1), Dec(27, 0), Dec(800, 0), Dec(10, 0)>> :> Dec(1423, 1)) @@
    (<<Dec(900, 1), Dec(27, 0), Dec(500, 0), Dec(0, 0)>> :> Dec(1535, 1)) @@
    (<<Dec(900, 1), Dec(27, 0), Dec(500, 0), Dec(6, 0)>> :> Dec(1368, 1)) @@
    (<<Dec(900, 1), Dec(27, 0), Dec(500, 0), Dec(10, 0)>> :> Dec(1284, 1)) @@
    (<<Dec(900, 1), Dec(27, 0), Dec(800, 0), Dec(0, 0)>> :> Dec(1913, 1)) @@
    (<<Dec(900, 1), Dec(27, 0), Dec(800, 0), Dec(6, 0)>> :> Dec(1666, 1)) @@
    (<<Dec(900, 1), Dec(27, 0), Dec(800, 0), Dec(10, 0)>> :> Dec(1545, 1))

calculate_thsw_index(temperature, relative_humidity, solar_radiation, wind_speed) ==
    {Returns(Some(ThswIndexes[<<temperature, _as_decimal(relative_humidity), solar_radiation,
                               _as_decimal(wind_speed)>>]), None)}

\* The temperatures, the humidity and the wind speeds of the records of the
\* model
Temperatures == { Dec(t, 1) : t \in {100, 300, 800, 900} }

\* calculate_heat_index, calculate_wind_chill and calculate_thw_index at the
\* values of the records of the model, evaluated once for all records.
HeatIndexes ==
    [ temperature \in Temperatures |-> calculate_heat_index(temperature, Some(Dec(27, 0))) ]

WindChills ==
    [ temperature \in Temperatures, wind_speed \in {Dec(6, 0), Dec(10, 0)} |->
        calculate_wind_chill(temperature, Some(wind_speed)) ]

ThwIndexes ==
    [ temperature \in Temperatures, wind_speed \in {Dec(0, 0), Dec(6, 0), Dec(10, 0)} |->
        calculate_thw_index(temperature, Some(Dec(27, 0)), Some(wind_speed)) ]

\* The list a of lines 400-410 after the first i of its three calls: the dew
\* points at the current, the low and the high temperature
RECURSIVE dew_point_list(_, _)
dew_point_list(record, i) ==
    IF i = 0 THEN {<<>>}
    ELSE LET temperature == << record.temperature_outside, record.temperature_outside_low,
                               record.temperature_outside_high >>[i]
         IN  IF Truthy(temperature)
               THEN appended(dew_point_list(record, i - 1),
                             calculate_dew_point(temperature[1], record.humidity_outside))
               ELSE dew_point_list(record, i - 1)

\* The list b of lines 401-410 after the first i of its three calls
RECURSIVE heat_index_list(_, _)
heat_index_list(record, i) ==
    IF i = 0 THEN {<<>>}
    ELSE LET temperature == << record.temperature_outside, record.temperature_outside_low,
                               record.temperature_outside_high >>[i]
         IN  IF Truthy(temperature)
               THEN appended(heat_index_list(record, i - 1), HeatIndexes[temperature[1]])
               ELSE heat_index_list(record, i - 1)

\* The list a of lines 429-441 after the first i of its six calls: with
\* wind_speed at the current, the high and the low temperature, then with
\* wind_speed_high at the same three
RECURSIVE wind_chill_list(_, _, _)
wind_chill_list(record, wind_speed, i) ==
    IF i = 0 THEN {<<>>}
    ELSE LET speed == << Some(wind_speed), record.wind_speed_high >>[((i - 1) \div 3) + 1]
             temperature == << record.temperature_outside, record.temperature_outside_high,
                               record.temperature_outside_low >>[((i - 1) % 3) + 1]
         IN  IF Truthy(speed) /\ Truthy(temperature)
               THEN appended(wind_chill_list(record, wind_speed, i - 1),
                             WindChills[temperature[1], _as_decimal(speed)])
               ELSE wind_chill_list(record, wind_speed, i - 1)

\* The list a of lines 451-460 after the first i of its six calls: at the
\* current, the high and the low temperature, each with ws and then with wsh
RECURSIVE thw_index_list(_, _, _, _)
thw_index_list(record, ws, wsh, i) ==
    IF i = 0 THEN {<<>>}
    ELSE LET temperature == << record.temperature_outside, record.temperature_outside_high,
                               record.temperature_outside_low >>[((i - 1) \div 2) + 1]
             speed == << ws, wsh >>[((i - 1) % 2) + 1]
         IN  IF Truthy(temperature)
               THEN appended(thw_index_list(record, ws, wsh, i - 1),
                             ThwIndexes[temperature[1], _as_decimal(speed)])
               ELSE thw_index_list(record, ws, wsh, i - 1)

\* The list a of lines 467-515 after the first i of its twelve calls: with
\* solar_radiation at the current, the high and the low temperature, then
\* with solar_radiation_high at the same three, each with ws and then with wsh
RECURSIVE thsw_index_list(_, _, _, _)
thsw_index_list(record, ws, wsh, i) ==
    IF i = 0 THEN {<<>>}
    ELSE LET radiation == << record.solar_radiation, record.solar_radiation_high >>[((i - 1) \div 6) + 1]
             temperature == << record.temperature_outside, record.temperature_outside_high,
                               record.temperature_outside_low >>[(((i - 1) \div 2) % 3) + 1]
             speed == << ws, wsh >>[((i - 1) % 2) + 1]
         IN  IF Truthy(temperature) /\ Truthy(radiation)
               THEN appended(thsw_index_list(record, ws, wsh, i - 1),
                             calculate_thsw_index(temperature[1], record.humidity_outside,
                                                  radiation[1], speed))
               ELSE thsw_index_list(record, ws, wsh, i - 1)

\* The empty dictionary
NoArguments == [key \in {} |-> ZERO]

\* if a: arguments[key] = a[0]; arguments[low] = min(a); arguments[high] = max(a)
triple(key, low, high, a) ==
    IF a # <<>> THEN (key :> a[1]) @@ (low :> min(a)) @@ (high :> max(a)) ELSE NoArguments

\* The entries a block of the function adds to arguments: none when the
\* block is not entered, else the triple of the list the block builds
block(entered, key, low, high, lists) ==
    IF entered THEN { triple(key, low, high, a) : a \in lists } ELSE {NoArguments}

\* temperature_outside or temperature_outside_high or temperature_outside_low
any_temperature(record) ==
    \/ Truthy(record.temperature_outside)
    \/ Truthy(record.temperature_outside_high)
    \/ Truthy(record.temperature_outside_low)

\* ws = wind_speed if wind_speed else 0
or_zero(wind_speed) == IF Truthy(wind_speed) THEN wind_speed ELSE Some(Dec(0, 0))

\* The dictionaries the function can return, as far as the five triples go:
\* wind_run_distance_total, the wet bulb temperatures and the inside values
\* are computed from the record alone and enter no triple.
calculate_all_record_values(record) ==
    { a @@ b @@ c @@ d @@ e :
        a \in block(Truthy(record.humidity_outside),
                    "dew_point_outside", "dew_point_outside_low", "dew_point_outside_high",
                    dew_point_list(record, 3)),
        b \in block(Truthy(record.humidity_outside),
                    "heat_index_outside", "heat_index_outside_low", "heat_index_outside_high",
                    heat_index_list(record, 3)),
        c \in block(/\ (Truthy(Some(_as_decimal(record.wind_speed))) \/ Truthy(record.wind_speed_high))
                    /\ any_temperature(record),
                    "wind_chill", "wind_chill_low", "wind_chill_high",
                    wind_chill_list(record, _as_decimal(record.wind_speed), 6)),
        d \in block(Truthy(record.humidity_outside) /\ any_temperature(record),
                    "thw_index", "thw_index_low", "thw_index_high",
                    thw_index_list(record, or_zero(Some(_as_decimal(record.wind_speed))),
                                   or_zero(record.wind_speed_high), 6)),
        e \in block(/\ Truthy(record.humidity_outside) /\ any_temperature(record)
                    /\ (Truthy(record.solar_radiation) \/ Truthy(record.solar_radiation_high)),
                    "thsw_index", "thsw_index_low", "thsw_index_high",
                    thsw_index_list(record, or_zero(Some(_as_decimal(record.wind_speed))),
                                    or_zero(record.wind_speed_high), 12)) }

\* The records: each outside temperature is missing or one of 10, 30, 80 and
\* 90 F, with low <= current <= high among those present; the wind speeds,
\* the humidity and the solar radiations are missing or one value each.
RecordTemperatures == {None} \cup { Some(temperature) : temperature \in Temperatures }

InOrder(low, high) == low = None \/ high = None \/ DCmp(low[1], high[1]) <= 0

Records ==
    { r \in [ wind_speed : {None, Some(Dec(6, 0))},
              wind_speed_high : {None, Some(Dec(10, 0))},
              humidity_outside : {None, Some(Dec(27, 0))},
              temperature_outside : RecordTemperatures,
              temperature_outside_low : RecordTemperatures,
              temperature_outside_high : RecordTemperatures,
              solar_radiation : {None, Some(Dec(500, 0))},
              solar_radiation_high : {None, Some(Dec(800, 0))} ] :
        /\ InOrder(r.temperature_outside_low, r.temperature_outside)
        /\ InOrder(r.temperature_outside, r.temperature_outside_high)
        /\ InOrder(r.temperature_outside_low, r.temperature_outside_high) }

RecordInit ==
    /\ Constructed
    /\ pc = "call"
    /\ inputs \in { [fn |-> "calculate_all_record_values", record |-> r] : r \in Records }
    /\ output = <<>>
    /\ failure = "None"
    /\ unrounded = <<>>

CalculateAllRecordValues ==
    /\ pc = "call"
    /\ inputs.fn = "calculate_all_record_values"
    /\ pc' = "done"
    /\ output' \in calculate_all_record_values(inputs.record)
    /\ UNCHANGED <<commVars, inputs, failure, unrounded>>

RecordNext == CalculateAllRecordValues

RecordSpec == RecordInit /\ [][RecordNext]_vars

RecordDone == pc = "done" /\ inputs.fn = "calculate_all_record_values"

\* The keys of the five triples: representative, low, high
Triples ==
    { <<"dew_point_outside", "dew_point_outside_low", "dew_point_outside_high">>,
      <<"heat_index_outside", "heat_index_outside_low", "heat_index_outside_high">>,
      <<"wind_chill", "wind_chill_low", "wind_chill_high">>,
      <<"thw_index", "thw_index_low", "thw_index_high">>,
      <<"thsw_index", "thsw_index_low", "thsw_index_high">> }

\* C11: of each of the five triples calculate_all_record_values emits the
\* three keys X, X_low and X_high together or not at all, and when it emits
\* them X_low <= X <= X_high.
C11_Triples ==
    RecordDone =>
        \A t \in Triples :
            /\ (t[1] \in DOMAIN output) = (t[2] \in DOMAIN output)
            /\ (t[1] \in DOMAIN output) = (t[3] \in DOMAIN output)
            /\ t[1] \in DOMAIN output =>
                  /\ DCmp(output[t[2]], output[t[1]]) <= 0
                  /\ DCmp(output[t[1]], output[t[3]]) <= 0

\* A record with a current and a high temperature, humidity and a high wind
\* speed: of the four THW candidates the first one, the representative, lies
\* strictly between the lowest and the highest, and the highest is not the
\* last one.
C11_Witness ==
    /\ RecordDone
    /\ inputs.record.temperature_outside = <<Dec(800, 1)>>
    /\ inputs.record.temperature_outside_high = <<Dec(900, 1)>>
    /\ "thw_index" \in DOMAIN output
    /\ DCmp(output["thw_index_low"], output["thw_index"]) < 0
    /\ DCmp(output["thw_index"], output["thw_index_high"]) < 0
    /\ output["thw_index_high"] = Dec(874, 1)

\* The values other than None that the function of a triple gives at one
\* temperature of the record, over the wind speeds and the solar radiations
\* the triple pairs the temperature with
Candidates(record, key, temperature) ==
    LET values(outcomes) == { o.value[1] : o \in { x \in outcomes : x.value # None } }
        speeds == { speed \in {Some(_as_decimal(record.wind_speed)), record.wind_speed_high} :
                        Truthy(speed) }
        speeds_or_zero == { or_zero(Some(_as_decimal(record.wind_speed))),
                            or_zero(record.wind_speed_high) }
        radiations == { radiation \in {record.solar_radiation, record.solar_radiation_high} :
                            Truthy(radiation) }
    IN  IF ~Truthy(temperature) THEN {}
        ELSE IF key = "wind_chill"
          THEN UNION { values(WindChills[temperature[1], speed[1]]) : speed \in speeds }
        ELSE IF ~Truthy(record.humidity_outside) THEN {}
        ELSE IF key = "dew_point_outside"
          THEN values(calculate_dew_point(temperature[1], record.humidity_outside))
        ELSE IF key = "heat_index_outside"
          THEN values(HeatIndexes[temperature[1]])
        ELSE IF key = "thw_index"
          THEN UNION { values(ThwIndexes[temperature[1], speed[1]]) : speed \in speeds_or_zero }
        ELSE UNION { values(calculate_thsw_index(temperature[1], record.humidity_outside,
                                                 radiation[1], speed)) :
                        radiation \in radiations, speed \in speeds_or_zero }

\* The candidates of a triple by the temperature they are computed from
CandidatesBy(record, key) ==
    [ variant \in {"current", "low", "high"} |->
        Candidates(record, key,
                   CASE variant = "current" -> record.temperature_outside
                     [] variant = "low" -> record.temperature_outside_low
                     [] variant = "high" -> record.temperature_outside_high) ]

\* C12: the representative of each of the five triples is the first computed
\* candidate in the order current, low, high of the temperatures: for a record
\* whose current temperature is missing or gives no value and whose low and
\* high temperature both give one, the representative is a value computed
\* from the low temperature.
C12_Representative ==
    RecordDone =>
        \A t \in Triples :
            \A by \in {CandidatesBy(inputs.record, t[1])} :
                by["current"] = {} /\ by["low"] # {} /\ by["high"] # {}
                => /\ t[1] \in DOMAIN output
                   /\ output[t[1]] \in by["low"]

\* C13: every candidate of a triple that is computed and is not None is
\* collected, a candidate of exactly zero included: when any candidate is not
\* None the keys of the triple are emitted, and every such candidate lies
\* between the low and the high value emitted.
C13_Collected ==
    RecordDone =>
        \A t \in Triples :
            \A by \in {CandidatesBy(inputs.record, t[1])} :
                \A candidate \in by["current"] \cup by["low"] \cup by["high"] :
                    /\ t[1] \in DOMAIN output
                    /\ DCmp(output[t[2]], candidate) <= 0
                    /\ DCmp(candidate, output[t[3]]) <= 0

\* C14: _read_data(length) on a connected communicator requests up to length
\* bytes from the socket, once, and returns what of them has arrived: with
\* two bytes available a call with length 2 returns both, and a call with
\* length 1 returns one.
C14_ReadData ==
    (op.name = "_read_data" /\ WasConnected /\ "socket.recv" \notin op.args.faults) =>
        /\ TransportCalls = <<Ev("socket.recv", op.args.length, <<>>)>>
        /\ raised = NoException
        /\ returned = Return(recv(op.args.rx, op.args.length))

(***************************************************************************)
(* SerialIPCommunicator.connect called by several threads on one           *)
(* communicator.  connect() takes no lock, so the threads interleave       *)
(* between any two accesses to self._socket: the test of the guard, the    *)
(* creation of the socket object, the assignment to self._socket, the read *)
(* of self._socket for the call of its connect method, and the same in the *)
(* cleanup.  The transport does not fail on its own here: a socket can be  *)
(* connected once, and connecting it again, or after it was closed, raises *)
(* socket.error.                                                           *)
(*                                                                         *)
(* pc[t] is where thread t stands, output[t] the socket object it holds    *)
(* on its stack, failure[t] the exception it is propagating, and           *)
(* inputs[t].overlapped tells whether its call ran while another call was  *)
(* in progress.                                                            *)
(***************************************************************************)

MaxThreads == 2

Threads == 1..MaxThreads

InProgress(t) == pc[t] \notin {"idle", "returned", "raised"}

ThreadsInit ==
    /\ Constructed
    /\ pc = [t \in Threads |-> "idle"]
    /\ inputs = [t \in Threads |-> [fn |-> "connect", overlapped |-> FALSE]]
    /\ output = [t \in Threads |-> NoSocket]
    /\ failure = [t \in Threads |-> "None"]
    /\ unrounded = <<>>

\* The variables no step of connect() touches
Untouched == <<calls, raised, returned, op, pre, prior, scope, unrounded>>

\* A thread calls connect()
ThreadCall ==
    \E t \in Threads :
        /\ pc[t] = "idle"
        /\ pc' = [pc EXCEPT ![t] = "guard"]
        /\ inputs' = [u \in Threads |->
                        IF (u = t /\ \E v \in Threads : InProgress(v)) \/ (u # t /\ InProgress(u))
                          THEN [inputs[u] EXCEPT !.overlapped = TRUE]
                          ELSE inputs[u]]
        /\ UNCHANGED <<_socket, sockets, output, failure, Untouched>>

\* The guard that lets every call through.
never_connected(socket) == FALSE

\* if self._socket:
already_connected(socket) == socket # NoSocket

\* if self._socket: raise ValueError('Cannot connect when already connected.')
ThreadGuard ==
    \E t \in Threads :
        /\ pc[t] = "guard"
        /\ IF already_connected(_socket)
             THEN /\ pc' = [pc EXCEPT ![t] = "raised"]
                  /\ failure' = [failure EXCEPT ![t] = "ValueError"]
             ELSE /\ pc' = [pc EXCEPT ![t] = "create"]
                  /\ UNCHANGED failure
        /\ UNCHANGED <<_socket, sockets, inputs, output, Untouched>>

\* socket.socket(socket.AF_INET, socket.SOCK_STREAM): a new socket object
ThreadCreate ==
    \E t \in Threads :
        /\ pc[t] = "create"
        /\ sockets' = Append(sockets, "open")
        /\ output' = [output EXCEPT ![t] = Len(sockets) + 1]
        /\ pc' = [pc EXCEPT ![t] = "store"]
        /\ UNCHANGED <<_socket, inputs, failure, Untouched>>

\* self._socket = <the new socket object>
ThreadStore ==
    \E t \in Threads :
        /\ pc[t] = "store"
        /\ _socket' = output[t]
        /\ pc' = [pc EXCEPT ![t] = "load"]
        /\ UNCHANGED <<sockets, inputs, output, failure, Untouched>>

\* self._socket.connect: the attribute is read again, and may by now be the
\* socket of another thread, or None after the cleanup of another thread
ThreadLoad ==
    \E t \in Threads :
        /\ pc[t] = "load"
        /\ IF _socket = NoSocket
             THEN /\ pc' = [pc EXCEPT ![t] = "except"]
                  /\ failure' = [failure EXCEPT ![t] = "AttributeError"]
                  /\ UNCHANGED output
             ELSE /\ pc' = [pc EXCEPT ![t] = "connect"]
                  /\ output' = [output EXCEPT ![t] = _socket]
                  /\ UNCHANGED failure
        /\ UNCHANGED <<_socket, sockets, inputs, Untouched>>

\* <socket>.connect((self.host, self.port, ))
ThreadConnect ==
    \E t \in Threads :
        /\ pc[t] = "connect"
        /\ IF sockets[output[t]] = "open"
             THEN /\ sockets' = [sockets EXCEPT ![output[t]] = "connected"]
                  /\ pc' = [pc EXCEPT ![t] = "returned"]
                  /\ UNCHANGED failure
             ELSE /\ pc' = [pc EXCEPT ![t] = "except"]
                  /\ failure' = [failure EXCEPT ![t] = "socket.error"]
                  /\ UNCHANGED sockets
        /\ UNCHANGED <<_socket, inputs, output, Untouched>>

\* except: if self._socket: ... self.disconnect() ...; raise
ThreadExcept ==
    \E t \in Threads :
        /\ pc[t] = "except"
        /\ pc' = [pc EXCEPT ![t] = IF _socket # NoSocket THEN "disconnect" ELSE "raised"]
        /\ UNCHANGED <<_socket, sockets, inputs, output, failure, Untouched>>

\* disconnect(): if not self._socket: raise ValueError(...), which is no
\* IOError and leaves connect() in the place of the first exception
ThreadDisconnect ==
    \E t \in Threads :
        /\ pc[t] = "disconnect"
        /\ IF _socket = NoSocket
             THEN /\ pc' = [pc EXCEPT ![t] = "raised"]
                  /\ failure' = [failure EXCEPT ![t] = "ValueError"]
             ELSE /\ pc' = [pc EXCEPT ![t] = "close"]
                  /\ UNCHANGED failure
        /\ UNCHANGED <<_socket, sockets, inputs, output, Untouched>>

\* try: self._socket.close()
ThreadClose ==
    \E t \in Threads :
        /\ pc[t] = "close"
        /\ IF _socket = NoSocket
             THEN /\ failure' = [failure EXCEPT ![t] = "AttributeError"]
                  /\ UNCHANGED sockets
             ELSE /\ sockets' = [sockets EXCEPT ![_socket] = "closed"]
                  /\ UNCHANGED failure
        /\ pc' = [pc EXCEPT ![t] = "finally"]
        /\ UNCHANGED <<_socket, inputs, output, Untouched>>

\* finally: self._socket = None; then the exception goes on to the caller
ThreadFinally ==
    \E t \in Threads :
        /\ pc[t] = "finally"
        /\ _socket' = NoSocket
        /\ pc' = [pc EXCEPT ![t] = "raised"]
        /\ UNCHANGED <<sockets, inputs, output, failure, Untouched>>

ThreadsNext ==
    \/ ThreadCall
    \/ ThreadGuard
    \/ ThreadCreate
    \/ ThreadStore
    \/ ThreadLoad
    \/ ThreadConnect
    \/ ThreadExcept
    \/ ThreadDisconnect
    \/ ThreadClose
    \/ ThreadFinally

ThreadsSpec == ThreadsInit /\ [][ThreadsNext]_vars

\* Every thread has called connect() and the call has ended.
AllDone == \A t \in Threads : pc[t] \in {"returned", "raised"}

\* Each call ran from its first to its last step with no other call in
\* progress.
Serialized == \A t \in Threads : ~inputs[t].overlapped

\* C15: of the threads that call connect() concurrently on a disconnected
\* communicator at most one establishes a connection and every other one
\* fails with the state error (ValueError), and in no interleaving is a second
\* socket opened for the communicator.
C15_Exclusive ==
    /\ Len(sockets) <= 1
    /\ AllDone =>
          /\ Cardinality({t \in Threads : pc[t] = "returned"}) <= 1
          /\ \A t \in Threads : pc[t] = "raised" => failure[t] = "ValueError"

\* C15 as the code has it: when the calls are serialized, each running to its
\* end before the next begins, the first call establishes the connection,
\* every later call fails with ValueError, and one socket is opened, which
\* the communicator holds.
C15_Serialized ==
    (AllDone /\ Serialized) =>
        /\ Cardinality({t \in Threads : pc[t] = "returned"}) = 1
        /\ \A t \in Threads : pc[t] = "raised" => failure[t] = "ValueError"
        /\ sockets = <<"connected">>
        /\ _socket = 1

\* Another thread called first and connected; thread 1 called after it had
\* returned and failed.
C15_Witness ==
    /\ AllDone
    /\ Serialized
    /\ \E t \in Threads : pc[t] = "returned"
    /\ pc[1] = "raised"
    /\ failure[1] = "ValueError"
    /\ sockets = <<"connected">>

(***************************************************************************)
(* calculate_10_minute_wind_average against the windows of the whole slot  *)
(* sequence                                                                *)
(***************************************************************************)

\* The average returned, 0 when it is None
ReturnedAverage == IF output[1] = <<>> THEN ZERO ELSE output[1][1]

\* C16: for a batch of records of 1 to 10 minutes each, no 10 consecutive
\* one-minute slots of the whole slot sequence, wherever they end, have a mean
\* above the average returned (above 0 when all None is returned).
C16_AllWindows ==
    WindAverageDone =>
        LET records == inputs.records
            slots == AllSlots(records)
        IN  (\A i \in 1..Len(records) : records[i][4] \in 1..10) =>
              \A i \in 1..(Len(slots) - 9) :
                  DCmp(Dec(TotalSpeed(SubSeq(slots, i, i + 9)), 1), ReturnedAverage) <= 0

\* C16 as the code has it: for a batch of records of 1 to 10 minutes each, no
\* window of 10 one-minute slots that ends with the last slot of a record has
\* a mean above the average returned (above 0 when all None is returned), and
\* an average that is returned is the mean of such a window.
C16_WindowsAfterRecords ==
    WindAverageDone =>
        LET records == inputs.records
        IN  (\A i \in 1..Len(records) : records[i][4] \in 1..10) =>
              /\ \A k \in FullAfter(records) :
                    DCmp(Dec(TotalSpeed(WindowAfter(records, k)), 1), ReturnedAverage) <= 0
              /\ output[1] # <<>> =>
                    \E k \in FullAfter(records) :
                        DCmp(Dec(TotalSpeed(WindowAfter(records, k)), 1), ReturnedAverage) = 0

\* Five minutes of wind and then a calm record of ten minutes: the first ten
\* slots have a mean of 1.0, but the only window taken, after the second
\* record, is calm, and all None is returned.
C16_Witness ==
    /\ WindAverageDone
    /\ Len(inputs.records) = 2
    /\ inputs.records[1][1] = <<Dec(2, 0)>>
    /\ inputs.records[1][4] = 5
    /\ inputs.records[2][1] = <<>>
    /\ inputs.records[2][4] = 10
    /\ TotalSpeed(SubSeq(AllSlots(inputs.records), 1, 10)) = 10
    /\ output = <<<<>>, <<>>, <<>>, <<>>>>

====
